---------------------------- MODULE Spec2Model ----------------------------
(***************************************************************************)
(* Model of src/main.py: the GitHub Actions -> Telegram notification       *)
(* action.  The main flow (__main__) is a state machine over pc; the pure  *)
(* functions (compute_duration, calculate_total_duration, the two-column   *)
(* layout of format_telegram_message) are operators, each also exercised   *)
(* by a specification of its own that draws its inputs from bounded sets.  *)
(*                                                                         *)
(* Representation of Python values                                         *)
(*   None            the record [None |-> TRUE]                            *)
(*   a nullable int or str v    [some |-> v]  (Some(v)); Val(o) unwraps    *)
(*   dict            record; d.get(k, default) is Get(d, k, default);      *)
(*                   {} is the record with no field                        *)
(*   list            sequence; a list that may be None is [items |-> seq]  *)
(*                   (List(seq)), TLC being unable to compare a sequence   *)
(*                   with a record                                         *)
(*   str             string; job names are sequences of one-character      *)
(*                   strings so that they can be normalised, Join(name)    *)
(*                   is the str                                            *)
(*   timestamp text  "%Y-%m-%dT%H:%M:%SZ" as the record of its fields      *)
(*                   [day, h, m, s] (day = days since the first day of the *)
(*                   model); strptime computes the datetime from them      *)
(*   datetime        whole seconds since day 0, 00:00:00                   *)
(*   timedelta       [days, seconds], normalised as Python does            *)
(*                   (0 <= seconds < 86400, days may be negative)          *)
(* Emoji are written as ASCII stand-ins with one character per code point  *)
(* (len() counts code points): see get_status_icon.  The Markdown          *)
(* backquote, which a TLA+ string cannot hold, is written as an apostrophe.*)
(***************************************************************************)
EXTENDS Integers, Sequences, FiniteSets, TLC

VARIABLES
    pc,              \* position of __main__ / which pure function is driven
    workflow_run,    \* main.py:394
    current_job_id,  \* main.py:396
    attempts,        \* main.py:150 loop counter of get_workflow_jobs
    jobs_data,       \* main.py:159 latest response of the jobs endpoint
    workflow_jobs,   \* main.py:399 value returned by get_workflow_jobs
    message,         \* main.py:400
    sink_calls,      \* messages handed to requests.post by send_telegram_message
    exit_status,     \* process exit status, None while running
    io,              \* watcher trace: "fetch" per requests.get, "sleep" per time.sleep
    arg,             \* input of the pure function under check
    ret              \* its result

vars == <<pc, workflow_run, current_job_id, attempts, jobs_data, workflow_jobs,
          message, sink_calls, exit_status, io, arg, ret>>

mainVars == <<workflow_run, current_job_id, attempts, jobs_data, workflow_jobs,
              message, sink_calls, exit_status, io>>

---------------------------------------------------------------------------
\* Python values

None == [None |-> TRUE]
Some(v) == [some |-> v]
Val(o) == o.some

List(seq) == [items |-> seq]

Get(d, k, default) == IF k \in DOMAIN d THEN d[k] ELSE default

Max(a, b) == IF a >= b THEN a ELSE b

RECURSIVE Spaces(_)
Spaces(n) == IF n <= 0 THEN "" ELSE " " \o Spaces(n - 1)

\* ''.join(chars)
RECURSIVE Join(_)
Join(chars) == IF chars = <<>> THEN "" ELSE Head(chars) \o Join(Tail(chars))

\* str.format with {:<width}: pad on the right, never truncate
LJust(s, width) == s \o Spaces(width - Len(s))
\* str.format with {:>width}: pad on the left, never truncate
RJust(s, width) == Spaces(width - Len(s)) \o s

---------------------------------------------------------------------------
\* Constants of main.py

MAX_ATTEMPTS == 5
SecondsPerDay == 24 * 60 * 60

---------------------------------------------------------------------------
\* Dates and durations

\* datetime.strptime(text, '%Y-%m-%dT%H:%M:%SZ'): ValueError unless every field
\* is in range
WellFormed(ts) ==
    /\ DOMAIN ts = {"day", "h", "m", "s"}
    /\ ts.day >= 0 /\ ts.h \in 0..23 /\ ts.m \in 0..59 /\ ts.s \in 0..59

strptime(ts) == ts.day * SecondsPerDay + ts.h * 3600 + ts.m * 60 + ts.s

\* timedelta normalisation: days and seconds of a signed number of seconds
timedelta(total) == [days |-> total \div SecondsPerDay, seconds |-> total % SecondsPerDay]
total_seconds(td) == td.days * SecondsPerDay + td.seconds

\* main.py:115-116  duration = end_time - start_time; divmod(duration.seconds, 60)
DurationFields(start_time, end_time) ==
    LET duration == timedelta(end_time - start_time)
    IN  [minutes |-> duration.seconds \div 60, seconds |-> duration.seconds % 60]

FormatDuration(f) == ToString(f.minutes) \o "m " \o ToString(f.seconds) \o "s"

\* mutant: the end_time < start_time test is dropped
compute_duration_NoOrderCheck(start_time, end_time) ==
    IF start_time = None \/ end_time = None THEN "N/A"
    ELSE FormatDuration(DurationFields(Val(start_time), Val(end_time)))

\* main.py:106-120; start_time, end_time are nullable datetimes
compute_duration(start_time, end_time) ==
    IF start_time = None \/ end_time = None THEN "N/A"
    ELSE IF Val(end_time) < Val(start_time) THEN "N/A"
    ELSE FormatDuration(DurationFields(Val(start_time), Val(end_time)))

\* main.py:220-231, the loop body: what one job adds to total_duration
JobElapsed(job, cur_id) ==
    IF Some(job.id) = cur_id THEN 0
    ELSE IF job.started_at = None \/ job.completed_at = None THEN 0
    ELSE IF ~WellFormed(job.started_at) \/ ~WellFormed(job.completed_at) THEN 0
    ELSE strptime(job.completed_at) - strptime(job.started_at)

RECURSIVE SumElapsed(_, _)
SumElapsed(list, cur_id) ==
    IF list = <<>> THEN 0
    ELSE JobElapsed(Head(list), cur_id) + SumElapsed(Tail(list), cur_id)

\* mutant: the current job is not skipped
calculate_total_duration_NoSkip(jobs, cur_id) ==
    timedelta(SumElapsed(Get(jobs, "jobs", <<>>), None))

\* main.py:217-233; jobs is the dict of the jobs endpoint, cur_id the parameter
\* current_job_id
calculate_total_duration(jobs, cur_id) ==
    timedelta(SumElapsed(Get(jobs, "jobs", <<>>), cur_id))

---------------------------------------------------------------------------
\* Rendering

EmptyDict == <<>>

\* f"{x}" of a nullable str
Str(o) == IF o = None THEN "None" ELSE Val(o)
\* truth value of a nullable str
Truthy(o) == o # None /\ Val(o) # ""

\* main.py:235-246.  Stand-ins, one character per code point of the emoji:
\* success "V", failure "X", cancelled "O", skipped ">~" (U+23ED U+FE0F),
\* timed_out "T", neutral "o", action_required "!~" (U+26A0 U+FE0F), other "?"
get_status_icon(conclusion) ==
    IF conclusion = None THEN "?"
    ELSE CASE Val(conclusion) = "success" -> "V"
           [] Val(conclusion) = "failure" -> "X"
           [] Val(conclusion) = "cancelled" -> "O"
           [] Val(conclusion) = "skipped" -> ">~"
           [] Val(conclusion) = "timed_out" -> "T"
           [] Val(conclusion) = "neutral" -> "o"
           [] Val(conclusion) = "action_required" -> "!~"
           [] OTHER -> "?"

\* main.py:248-257.  Stand-ins: green square "G", red "R", white "W", blue "B"
get_workflow_status_emoji(conclusion) ==
    IF conclusion = None THEN "B"
    ELSE CASE Val(conclusion) = "success" -> "G"
           [] Val(conclusion) = "failure" -> "R"
           [] Val(conclusion) = "cancelled" -> "W"
           [] OTHER -> "B"

\* main.py:337-343: the job's duration text; a timestamp that does not parse
\* gives "N/A"
JobDuration(job) ==
    IF job.started_at # None /\ ~WellFormed(job.started_at) THEN "N/A"
    ELSE IF job.completed_at # None /\ ~WellFormed(job.completed_at) THEN "N/A"
    ELSE compute_duration(
            IF job.started_at # None THEN Some(strptime(job.started_at)) ELSE None,
            IF job.completed_at # None THEN Some(strptime(job.completed_at)) ELSE None)

\* main.py:335-353: one rendered job line
JobDetail(job) ==
    get_status_icon(job.conclusion) \o " [" \o Join(job.name) \o "](" \o job.html_url
        \o ") (" \o JobDuration(job) \o ")"

\* main.py:332: filtered_jobs
RECURSIVE FilteredJobs(_, _)
FilteredJobs(list, cur_id) ==
    IF list = <<>> THEN <<>>
    ELSE IF Some(Head(list).id) # cur_id
         THEN <<Head(list)>> \o FilteredJobs(Tail(list), cur_id)
         ELSE FilteredJobs(Tail(list), cur_id)

JobDetails(list, cur_id) ==
    LET f == FilteredJobs(list, cur_id) IN [i \in 1..Len(f) |-> JobDetail(f[i])]

---------------------------------------------------------------------------
\* The two-column layout, main.py:328-374

\* main.py:334,355-358: the loop that deals the lines to the two columns; i is
\* the 0-based index of enumerate
RECURSIVE DealColumns(_, _, _, _)
DealColumns(details, i, left_column, right_column) ==
    IF i >= Len(details) THEN [left |-> left_column, right |-> right_column]
    ELSE IF i % 2 = 0
         THEN DealColumns(details, i + 1, Append(left_column, details[i + 1]), right_column)
         ELSE DealColumns(details, i + 1, left_column, Append(right_column, details[i + 1]))

Columns(details) == DealColumns(details, 0, <<>>, <<>>)

\* main.py:361
RECURSIVE MaxLen(_)
MaxLen(column) == IF column = <<>> THEN 0 ELSE Max(Len(Head(column)), MaxLen(Tail(column)))

max_left_width(left_column) == MaxLen(left_column)

\* mutant: the right entry directly follows the padded left entry
FormatRow_Adjacent(left, right, width) == LJust(left, width + 4) \o right

\* main.py:365,374: format_string.format(left, right), the format string being
\* "{:<W+4} {:>W+2}" with W = max_left_width
FormatRow(left, right, width) ==
    LJust(left, width + 4) \o " " \o RJust(right, width + 2)

\* main.py:361-374: the rows, without the "\n\n" that ends each
LayoutRows(details) ==
    LET c == Columns(details)
        w == max_left_width(c.left)
        max_lines == Max(Len(c.left), Len(c.right))
    IN  [i \in 1..max_lines |->
            FormatRow(IF i <= Len(c.left) THEN c.left[i] ELSE "",
                      IF i <= Len(c.right) THEN c.right[i] ELSE "",
                      w)]

---------------------------------------------------------------------------
\* format_telegram_message, main.py:259-384
\* The message is the sequence of the segments that the function appends
\* (message += ...); each is <<kind, text>>, kind naming the statement.
\* An exception inside the function is the value Raised.

Raised == [raised |-> TRUE]
Ok(text) == [raised |-> FALSE, text |-> text]

ERROR_NOTICE == "Error formatting message. See logs for details."

\* main.py:271-277
WorkflowDuration(workflow) ==
    IF "created_at" \notin DOMAIN workflow \/ "updated_at" \notin DOMAIN workflow THEN "N/A"
    ELSE IF workflow.created_at = None \/ workflow.updated_at = None THEN "N/A"
    ELSE IF ~WellFormed(workflow.created_at) \/ ~WellFormed(workflow.updated_at) THEN "N/A"
    ELSE compute_duration(Some(strptime(workflow.created_at)),
                          Some(strptime(workflow.updated_at)))

\* main.py:288-323: the event details; event_url is workflow.get('html_url', '')
EventFragment(workflow, event_type, event_url) ==
    CASE event_type = "pull_request" ->
            LET prs == Get(workflow, "pull_requests", List(<<EmptyDict>>)) IN
            IF prs = None THEN Raised                   \* TypeError: None[0]
            ELSE IF prs.items = <<>> THEN Raised        \* IndexError: [][0]
            ELSE IF prs.items[1] = None THEN Raised     \* AttributeError: None.get
            ELSE LET pr == prs.items[1] IN
                 Ok("(link) [Pull Request: "
                    \o Str(Get(pr, "title", Some("Unknown Pull Request")))
                    \o "](" \o Str(Get(pr, "html_url", Some(event_url))) \o ")\n\n")
      [] event_type = "push" ->
            LET hc == Get(workflow, "head_commit", EmptyDict) IN
            IF hc = None THEN Raised
            ELSE LET commit_message == Get(hc, "message", Some("No commit message"))
                     commit_sha == Get(hc, "id", Some(""))
                     repo == Get(workflow, "repository", EmptyDict)
                 IN  IF Truthy(commit_sha)
                     THEN IF repo = None THEN Raised
                          ELSE Ok("(memo) [Commit: " \o Str(commit_message) \o "]("
                                  \o Str(Get(repo, "html_url", Some("")))
                                  \o "/commit/" \o Str(commit_sha) \o ")\n\n")
                     ELSE Ok("(memo) Commit: " \o Str(commit_message) \o "\n\n")
      [] event_type = "release" ->
            LET rel == Get(workflow, "release", EmptyDict) IN
            IF rel = None THEN Raised
            ELSE Ok("(link) [Release: " \o Str(Get(rel, "tag_name", Some("No release tag")))
                    \o "](" \o Str(Get(rel, "html_url", Some(event_url))) \o ")\n\n")
      [] event_type = "workflow_dispatch" ->
            Ok("(link) Workflow dispatched on branch: '"
               \o Str(Get(workflow, "head_branch", Some("No branch"))) \o "'\n\n")
      [] event_type = "create" ->
            LET ref_type == Get(workflow, "ref_type", Some("No ref type"))
                ref_name == Get(workflow, "ref", Some("No ref name"))
                repo == Get(workflow, "repository", EmptyDict)
            IN  IF repo = None THEN Raised
                ELSE LET repo_html_url == Get(repo, "html_url", Some("")) IN
                     IF Truthy(ref_name) /\ Truthy(repo_html_url)
                     THEN Ok("(link) [Created: " \o Str(ref_type) \o "]("
                             \o Str(repo_html_url) \o "/tree/" \o Str(ref_name) \o ") "
                             \o Str(ref_name) \o "\n\n")
                     ELSE Ok("(link) Created: " \o Str(ref_type) \o " " \o Str(ref_name)
                             \o "\n\n")
      [] event_type = "delete" ->
            Ok("(bin) Deleted: " \o Str(Get(workflow, "ref_type", Some("No ref type")))
               \o " '" \o Str(Get(workflow, "ref", Some("No ref name"))) \o "'\n\n")
      [] event_type = "repository_dispatch" ->
            LET cp == Get(workflow, "client_payload", EmptyDict) IN
            IF cp = None THEN Raised
            ELSE Ok("(link) Repository Dispatch event: '"
                    \o Str(Get(cp, "action", Some("No event action"))) \o "'\n\n")
      [] event_type = "schedule" ->
            LET sch == Get(workflow, "schedule", EmptyDict) IN
            IF sch = None THEN Raised
            ELSE Ok("(clock) Scheduled event with cron: '"
                    \o Str(Get(sch, "cron", Some("No schedule"))) \o "'\n\n")
      [] OTHER -> Ok("(link) [Event details]\n\n")

\* main.py:334-374 as segments: one per output row
JobRows(list, cur_id) ==
    LET rows == LayoutRows(JobDetails(list, cur_id))
    IN  [i \in 1..Len(rows) |-> <<"job_row", rows[i] \o "\n\n">>]

\* main.py:261-381, the try block: Raised where a statement raises
ComposeMessage(workflow, jobs, cur_id) ==
    LET event_type == Get(workflow, "event", "workflow_dispatch")
        event_url == Get(workflow, "html_url", "")
        actor == Get(workflow, "actor", EmptyDict)
        repo == Get(workflow, "repository", EmptyDict)
        fragment == EventFragment(workflow, event_type, event_url)
        display_name == Get(workflow, "name", "Unknown Workflow") \o " #"
                        \o (IF "run_number" \in DOMAIN workflow
                            THEN ToString(workflow.run_number) ELSE "#")
    IN  IF actor = None THEN Raised                           \* line 280
        ELSE IF fragment.raised THEN Raised                   \* lines 289-323
        ELSE IF jobs = None THEN Raised                       \* line 332, None['jobs']
        ELSE IF "jobs" \notin DOMAIN jobs THEN Raised         \* line 332, KeyError
        ELSE IF repo = None THEN Raised                       \* line 376
        ELSE Ok(
            << <<"status", get_workflow_status_emoji(Get(workflow, "conclusion", None))
                           \o " *GITHUB ACTIONS NOTIFICATION*\n\n">>,
               <<"workflow", "(cycle) _Event:_ '" \o event_type
                             \o "' | (gear) _Workflow:_ [" \o display_name \o "]("
                             \o event_url \o ") _completed in_ "
                             \o WorkflowDuration(workflow) \o "\n\n">>,
               <<"event", fragment.text>>,
               <<"author", "(user) _Author:_ ["
                           \o Str(Get(actor, "login", Some("Unknown Author"))) \o "]("
                           \o Str(Get(actor, "html_url", Some(""))) \o ")\n\n">>,
               <<"job_details", "_Job Details:_ \n\n">> >>
            \o JobRows(jobs.jobs, cur_id)
            \o << <<"repository", "\n(package) _Repository:_ ["
                                  \o Str(Get(repo, "full_name", Some("Unknown Repository")))
                                  \o "](" \o Str(Get(repo, "html_url", Some(""))) \o ")\n\n">> >>)

\* main.py:259-384: the segments of the returned str
format_telegram_message(workflow, jobs, cur_id) ==
    LET r == ComposeMessage(workflow, jobs, cur_id)
    IN  IF r.raised THEN << <<"error", ERROR_NOTICE>> >> ELSE r.text

---------------------------------------------------------------------------
\* get_current_job_id, main.py:183-215

UpperCase == <<"A", "B", "N", "T">>
LowerCase == <<"a", "b", "n", "t">>
Digits == {"0", "1", "2", "3", "4", "5", "6", "7", "8", "9"}

\* str.lower() on one character
Lower(c) ==
    IF \E i \in DOMAIN UpperCase : UpperCase[i] = c
    THEN LowerCase[CHOOSE i \in DOMAIN UpperCase : UpperCase[i] = c]
    ELSE c

IsAlnum(c) == c \in Digits \/ \E i \in DOMAIN LowerCase : c \in {LowerCase[i], UpperCase[i]}

\* main.py:203-206: strip().lower(), then keep the alphanumeric characters
RECURSIVE NormalizeName(_)
NormalizeName(chars) ==
    IF chars = <<>> THEN <<>>
    ELSE IF IsAlnum(Lower(Head(chars)))
         THEN <<Lower(Head(chars))>> \o NormalizeName(Tail(chars))
         ELSE NormalizeName(Tail(chars))

\* main.py:202-212: the id of the first job whose normalised name matches, or None
RECURSIVE FindJobId(_, _)
FindJobId(list, job_name) ==
    IF list = <<>> THEN None
    ELSE IF NormalizeName(Head(list).name) = NormalizeName(job_name)
         THEN Some(Head(list).id)
         ELSE FindJobId(Tail(list), job_name)

---------------------------------------------------------------------------
\* get_workflow_jobs, main.py:141-181

\* main.py:168-171: the number of pending jobs of a response
RECURSIVE PendingCount(_, _)
PendingCount(list, cur_id) ==
    IF list = <<>> THEN 0
    ELSE (IF Some(Head(list).id) # cur_id /\ Head(list).status # "completed" THEN 1 ELSE 0)
         + PendingCount(Tail(list), cur_id)

\* mutant: one more attempt than the budget
LoopContinues_OffByOne(n) == n <= MAX_ATTEMPTS

\* main.py:151: while attempts < MAX_ATTEMPTS
LoopContinues(n) == n < MAX_ATTEMPTS

---------------------------------------------------------------------------
\* The environment: what the GitHub and Telegram APIs may answer

NumOtherJobs == 2       \* jobs of the run besides the reporting job

T(day, h, m, s) == [day |-> day, h |-> h, m |-> m, s |-> s]

\* the job that runs this action: in progress while it polls
ReportingJob ==
    [id |-> 1, name |-> <<"N", "-", "t">>, status |-> "in_progress",
     conclusion |-> None, started_at |-> T(0, 10, 6, 0), completed_at |-> None,
     html_url |-> "u/1"]

\* the states in which a poll may find another job
OtherJobSnapshots(id) ==
    {[id |-> id, name |-> <<"b", ToString(id)>>, status |-> st.status,
      conclusion |-> st.conclusion, started_at |-> st.started_at,
      completed_at |-> st.completed_at, html_url |-> "u/" \o ToString(id)] :
        st \in {[status |-> "queued", conclusion |-> None,
                 started_at |-> None, completed_at |-> None],
                [status |-> "in_progress", conclusion |-> None,
                 started_at |-> T(0, 10, 0, 0), completed_at |-> None],
                [status |-> "completed", conclusion |-> Some("success"),
                 started_at |-> T(0, 10, 0, 0), completed_at |-> T(0, 10, 5, 0)],
                [status |-> "completed", conclusion |-> Some("failure"),
                 started_at |-> T(0, 10, 0, 0), completed_at |-> T(1, 10, 0, 30)]}}

\* the job lists of 1 + n jobs, the reporting job first
RECURSIVE JobLists(_)
JobLists(n) ==
    IF n = 0 THEN {<<ReportingJob>>}
    ELSE {Append(l, j) : l \in JobLists(n - 1), j \in OtherJobSnapshots(n + 1)}

\* answers of GET .../actions/runs/{run_id}/jobs
JobsResponses ==
    {[kind |-> "connection_error"], [kind |-> "http_error"]}
        \cup {[kind |-> "ok", body |-> [jobs |-> l]] : l \in JobLists(NumOtherJobs)}

\* answers of GET .../actions/runs/{run_id}
Workflows ==
    {[name |-> "CI", run_number |-> 7, event |-> "push", html_url |-> "u/run",
      conclusion |-> Some("success"),
      created_at |-> T(0, 10, 0, 0), updated_at |-> T(0, 10, 5, 0),
      actor |-> [login |-> Some("dev"), html_url |-> Some("u/dev")],
      repository |-> [full_name |-> Some("o/r"), html_url |-> Some("u/r")],
      head_commit |-> [message |-> Some("fix"), id |-> Some("abc")]],
     [name |-> "CI", run_number |-> 8, event |-> "workflow_dispatch",
      html_url |-> "u/run", conclusion |-> None,
      actor |-> [login |-> Some("dev"), html_url |-> Some("u/dev")],
      repository |-> [full_name |-> Some("o/r"), html_url |-> Some("u/r")],
      head_branch |-> Some("main")]}

\* values of GITHUB_JOB: two that match the reporting job's name once
\* normalised, one that matches no job, and the variable being unset
EnvJobNames == {Some(<<"n", "t">>), Some(<<" ", "N", "_", "T">>), Some(<<"a">>), None}

---------------------------------------------------------------------------
\* __main__, main.py:386-406

Init ==
    /\ pc = "check_telegram_connection"
    /\ workflow_run = None
    /\ current_job_id = None
    /\ attempts = 0
    /\ jobs_data = None
    /\ workflow_jobs = None
    /\ message = <<>>
    /\ sink_calls = <<>>
    /\ exit_status = None
    /\ io = <<>>
    /\ arg = None
    /\ ret = None

\* sys.exit(status)
Exit(status) == pc' = "exit" /\ exit_status' = Some(status)

\* main.py:390-391, 57-69
CheckTelegramConnection ==
    /\ pc = "check_telegram_connection"
    /\ \E ok \in BOOLEAN :
        IF ok THEN pc' = "check_github_access" /\ UNCHANGED exit_status
        ELSE Exit(1)
    /\ UNCHANGED <<workflow_run, current_job_id, attempts, jobs_data, workflow_jobs,
                   message, sink_calls, io, arg, ret>>

\* main.py:392, 71-86
CheckGithubAccess ==
    /\ pc = "check_github_access"
    /\ \E ok \in BOOLEAN :
        IF ok THEN pc' = "get_workflow_run" /\ UNCHANGED exit_status
        ELSE Exit(1)
    /\ UNCHANGED <<workflow_run, current_job_id, attempts, jobs_data, workflow_jobs,
                   message, sink_calls, io, arg, ret>>

\* main.py:394, 122-139
GetWorkflowRun ==
    /\ pc = "get_workflow_run"
    /\ \E ok \in BOOLEAN :
        IF ok
        THEN /\ workflow_run' \in Workflows
             /\ pc' = "get_current_job_id"
             /\ UNCHANGED exit_status
        ELSE Exit(1) /\ UNCHANGED workflow_run
    /\ UNCHANGED <<current_job_id, attempts, jobs_data, workflow_jobs,
                   message, sink_calls, io, arg, ret>>

\* main.py:396, 183-215.  A failed connection exits (line 213-215), a bad status
\* returns None (line 191-193); an unset GITHUB_JOB raises AttributeError at
\* line 205 when the list has a job, which __main__ turns into exit 1.
GetCurrentJobId ==
    /\ pc = "get_current_job_id"
    /\ \E resp \in JobsResponses, job_name \in EnvJobNames :
        CASE resp.kind = "connection_error" -> Exit(1) /\ UNCHANGED current_job_id
          [] resp.kind = "http_error" ->
                /\ current_job_id' = None
                /\ pc' = "get_workflow_jobs"
                /\ UNCHANGED exit_status
          [] OTHER ->
                IF job_name = None /\ resp.body.jobs # <<>>
                THEN Exit(1) /\ UNCHANGED current_job_id
                ELSE /\ current_job_id' = FindJobId(resp.body.jobs, Val(job_name))
                     /\ pc' = "get_workflow_jobs"
                     /\ UNCHANGED exit_status
    /\ UNCHANGED <<workflow_run, attempts, jobs_data, workflow_jobs,
                   message, sink_calls, io, arg, ret>>

\* main.py:399, 150-181: one iteration of the while loop, from requests.get to
\* the loop test; falling out of the loop returns None (no return statement).
GetWorkflowJobsIteration ==
    /\ pc = "get_workflow_jobs"
    /\ \E resp \in JobsResponses :
        CASE resp.kind = "connection_error" ->
                /\ Exit(1)
                /\ io' = Append(io, "fetch")
                /\ UNCHANGED <<attempts, jobs_data, workflow_jobs>>
          [] resp.kind = "http_error" ->
                /\ workflow_jobs' = None
                /\ pc' = "format_telegram_message"
                /\ io' = Append(io, "fetch")
                /\ UNCHANGED <<attempts, jobs_data, exit_status>>
          [] OTHER ->
                /\ jobs_data' = resp.body
                /\ IF PendingCount(resp.body.jobs, current_job_id) = 0
                   THEN /\ workflow_jobs' = resp.body
                        /\ pc' = "format_telegram_message"
                        /\ io' = Append(io, "fetch")
                        /\ UNCHANGED attempts
                   ELSE /\ io' = io \o <<"fetch", "sleep">>
                        /\ attempts' = attempts + 1
                        /\ IF LoopContinues(attempts + 1)
                           THEN pc' = "get_workflow_jobs" /\ UNCHANGED workflow_jobs
                           ELSE pc' = "format_telegram_message" /\ workflow_jobs' = None
                /\ UNCHANGED exit_status
    /\ UNCHANGED <<workflow_run, current_job_id, message, sink_calls, arg, ret>>

\* main.py:400
FormatTelegramMessage ==
    /\ pc = "format_telegram_message"
    /\ message' = format_telegram_message(workflow_run, workflow_jobs, current_job_id)
    /\ pc' = "send_telegram_message"
    /\ UNCHANGED <<workflow_run, current_job_id, attempts, jobs_data, workflow_jobs,
                   sink_calls, exit_status, io, arg, ret>>

\* main.py:401-403, 88-104: the POST is made, then its status decides
SendTelegramMessage ==
    /\ pc = "send_telegram_message"
    /\ sink_calls' = Append(sink_calls, message)
    /\ \E failed \in BOOLEAN : Exit(IF failed THEN 1 ELSE 0)
    /\ UNCHANGED <<workflow_run, current_job_id, attempts, jobs_data, workflow_jobs,
                   message, io, arg, ret>>

Next ==
    \/ CheckTelegramConnection
    \/ CheckGithubAccess
    \/ GetWorkflowRun
    \/ GetCurrentJobId
    \/ GetWorkflowJobsIteration
    \/ FormatTelegramMessage
    \/ SendTelegramMessage

Spec == Init /\ [][Next]_vars

\* the process runs until it exits: the watcher's loop, single-threaded and
\* blocking, is never postponed for ever
FairSpec == Spec /\ WF_vars(GetWorkflowJobsIteration)

---------------------------------------------------------------------------
\* The pure functions, each applied to inputs drawn from bounded sets

MaxDays == 2            \* datetimes span days 0..MaxDays
MaxJobs == 3            \* jobs of a list given to calculate_total_duration
MaxLines == 5           \* job lines given to the layout

Idle ==
    /\ workflow_run = None /\ current_job_id = None /\ attempts = 0
    /\ jobs_data = None /\ workflow_jobs = None /\ message = <<>>
    /\ sink_calls = <<>> /\ exit_status = None /\ io = <<>>

\* seconds of the day that the datetimes take
SampleSeconds == {0, 30, 59, 60, 1830, 3599, 43200, 86399}

DateTimes ==
    {None} \cup {Some(d * SecondsPerDay + sec) : d \in 0..MaxDays, sec \in SampleSeconds}

InitDuration ==
    /\ pc = "compute_duration"
    /\ arg \in [start_time : DateTimes, end_time : DateTimes]
    /\ ret = None
    /\ Idle

ComputeDuration ==
    /\ pc = "compute_duration"
    /\ ret' = compute_duration(arg.start_time, arg.end_time)
    /\ pc' = "return"
    /\ UNCHANGED <<arg, mainVars>>

SpecDuration == InitDuration /\ [][ComputeDuration]_vars

\* timings of a job in a list given to calculate_total_duration: not started,
\* running, finished in 5 minutes, finished a day later, end before start,
\* an end that does not parse
Timings ==
    {[started_at |-> None, completed_at |-> None],
     [started_at |-> T(0, 10, 0, 0), completed_at |-> None],
     [started_at |-> T(0, 10, 0, 0), completed_at |-> T(0, 10, 5, 0)],
     [started_at |-> T(0, 23, 59, 30), completed_at |-> T(1, 23, 59, 40)],
     [started_at |-> T(0, 10, 5, 0), completed_at |-> T(0, 10, 0, 0)],
     [started_at |-> T(0, 10, 0, 0), completed_at |-> T(0, 10, 0, 61)]}

TimedJob(id, tm) ==
    [id |-> id, name |-> <<"b", ToString(id)>>, started_at |-> tm.started_at,
     completed_at |-> tm.completed_at]

\* the lists of jobs 1..n, each with one of the timings
RECURSIVE TimedJobLists(_)
TimedJobLists(n) ==
    IF n = 0 THEN {<<>>}
    ELSE {Append(l, TimedJob(n, tm)) : l \in TimedJobLists(n - 1), tm \in Timings}

InitTotal ==
    /\ pc = "calculate_total_duration"
    /\ \E n \in 0..MaxJobs :
        arg \in [jobs : {[jobs |-> l] : l \in TimedJobLists(n)},
                 cur : {None} \cup {Some(id) : id \in 1..MaxJobs}]
    /\ ret = None
    /\ Idle

CalculateTotalDuration ==
    /\ pc = "calculate_total_duration"
    /\ ret' = calculate_total_duration(arg.jobs, arg.cur)
    /\ pc' = "return"
    /\ UNCHANGED <<arg, mainVars>>

SpecTotal == InitTotal /\ [][CalculateTotalDuration]_vars

\* rendered job lines of different widths, one wider than any left column + 2
SampleLines == {"a", "bbb", "cc ccc"}

RECURSIVE LineLists(_)
LineLists(n) ==
    IF n = 0 THEN {<<>>}
    ELSE {Append(l, x) : l \in LineLists(n - 1), x \in SampleLines}

InitLayout ==
    /\ pc = "layout"
    /\ \E n \in 0..MaxLines : arg \in LineLists(n)
    /\ ret = None
    /\ Idle

Layout ==
    /\ pc = "layout"
    /\ ret' = LayoutRows(arg)
    /\ pc' = "return"
    /\ UNCHANGED <<arg, mainVars>>

SpecLayout == InitLayout /\ [][Layout]_vars

InitCompose ==
    /\ pc = "format_telegram_message"
    /\ \E n \in 0..NumOtherJobs :
        arg \in [workflow : Workflows,
                 jobs : {[jobs |-> l] : l \in JobLists(n)},
                 cur : {None, Some(ReportingJob.id)}]
    /\ ret = None
    /\ Idle

Compose ==
    /\ pc = "format_telegram_message"
    /\ ret' = format_telegram_message(arg.workflow, arg.jobs, arg.cur)
    /\ pc' = "return"
    /\ UNCHANGED <<arg, mainVars>>

SpecCompose == InitCompose /\ [][Compose]_vars

\* a workflow run without its event and event-specific payload
BaseWorkflow ==
    [name |-> "CI", run_number |-> 7, html_url |-> "u/run",
     conclusion |-> Some("success"),
     actor |-> [login |-> Some("dev"), html_url |-> Some("u/dev")],
     repository |-> [full_name |-> Some("o/r"), html_url |-> Some("u/r")]]

\* event and event-specific payload of the run, as the API may give them: the
\* key missing, null, empty, or filled
EventPayloads ==
    << [event |-> "pull_request"],
       [event |-> "pull_request", pull_requests |-> None],
       [event |-> "pull_request", pull_requests |-> List(<<>>)],
       [event |-> "pull_request", pull_requests |-> List(<<EmptyDict>>)],
       [event |-> "pull_request", pull_requests |-> List(<<[title |-> None]>>)],
       [event |-> "pull_request",
        pull_requests |-> List(<<[title |-> Some("PR"), html_url |-> Some("u/pr")]>>)],
       [event |-> "push"],
       [event |-> "push", head_commit |-> None],
       [event |-> "push", head_commit |-> EmptyDict],
       [event |-> "push", head_commit |-> [message |-> Some("fix")]],
       [event |-> "push", head_commit |-> [message |-> Some("fix"), id |-> Some("abc")]],
       [event |-> "release"],
       [event |-> "release", release |-> None],
       [event |-> "release", release |-> EmptyDict],
       [event |-> "release",
        release |-> [tag_name |-> Some("v1"), html_url |-> Some("u/v1")]],
       [event |-> "workflow_dispatch"],
       [event |-> "workflow_dispatch", head_branch |-> None],
       [event |-> "workflow_dispatch", head_branch |-> Some("main")],
       [event |-> "create"],
       [event |-> "create", ref_type |-> None, ref |-> None],
       [event |-> "create", ref_type |-> Some("tag"), ref |-> Some("v1")],
       [event |-> "delete"],
       [event |-> "delete", ref_type |-> None, ref |-> None],
       [event |-> "delete", ref_type |-> Some("branch"), ref |-> Some("old")],
       [event |-> "repository_dispatch"],
       [event |-> "repository_dispatch", client_payload |-> None],
       [event |-> "repository_dispatch", client_payload |-> EmptyDict],
       [event |-> "repository_dispatch", client_payload |-> [action |-> Some("go")]],
       [event |-> "schedule"],
       [event |-> "schedule", schedule |-> None],
       [event |-> "schedule", schedule |-> EmptyDict],
       [event |-> "schedule", schedule |-> [cron |-> Some("0 0 * * *")]],
       [event |-> "fork"],
       EmptyDict >>

InitEvent ==
    /\ pc = "format_event"
    /\ \E i \in DOMAIN EventPayloads, n \in 0..NumOtherJobs :
        \E l \in JobLists(n) :
            arg = [workflow |-> EventPayloads[i] @@ BaseWorkflow,
                   jobs |-> [jobs |-> l],
                   cur |-> Some(ReportingJob.id)]
    /\ ret = None
    /\ Idle

ComposeEvent ==
    /\ pc = "format_event"
    /\ ret' = format_telegram_message(arg.workflow, arg.jobs, arg.cur)
    /\ pc' = "return"
    /\ UNCHANGED <<arg, mainVars>>

SpecEvent == InitEvent /\ [][ComposeEvent]_vars

---------------------------------------------------------------------------
\* Claims

\* number of requests.get calls of the watcher
RECURSIVE Fetches(_)
Fetches(log) ==
    IF log = <<>> THEN 0
    ELSE (IF Head(log) = "fetch" THEN 1 ELSE 0) + Fetches(Tail(log))

\* the watcher has returned or exited
WatchOver == io # <<>> /\ pc # "get_workflow_jobs"

\* C1: when the watcher uses up its MAX_ATTEMPTS polls with a job still
\* pending, the invocation ends with a non-zero exit status, no message was
\* composed and nothing was handed to the notification sink.
C1_TimeoutIsFatal ==
    (pc = "exit" /\ attempts = MAX_ATTEMPTS)
        => (exit_status = Some(1) /\ message = <<>> /\ sink_calls = <<>>)

\* C2: a watch that ended on a non-success status of the jobs endpoint (the
\* watcher returned without a snapshot before its budget was used up) ends
\* the invocation with a non-zero exit status and no call of the sink; exit
\* status 0 only comes with the delivery of the message composed from a
\* stable snapshot.
C2_HttpErrorAborts ==
    /\ (pc = "exit" /\ WatchOver /\ workflow_jobs = None /\ attempts < MAX_ATTEMPTS)
            => (exit_status = Some(1) /\ sink_calls = <<>>)
    /\ exit_status = Some(0)
            => /\ workflow_jobs # None
               /\ PendingCount(workflow_jobs.jobs, current_job_id) = 0
               /\ sink_calls = <<message>>

\* C3: whenever a message has been composed, it was composed from the
\* snapshot of the watcher's last poll, in which every job other than the
\* reporting job is completed; never from a missing snapshot.
C3_ComposeOnStableSnapshot ==
    message # <<>>
        => /\ workflow_jobs # None
           /\ workflow_jobs = jobs_data
           /\ PendingCount(workflow_jobs.jobs, current_job_id) = 0

\* C4: a watch makes at most MAX_ATTEMPTS requests of the jobs endpoint and
\* comes to an end, whatever the endpoint answers.
C4_BoundedWatch ==
    /\ [](Fetches(io) <= MAX_ATTEMPTS)
    /\ (pc = "get_workflow_jobs") ~> (pc \in {"format_telegram_message", "exit"})

\* C4 witness: a job never completed, the watch stopped after the 5th request
C4_Witness ==
    /\ pc = "format_telegram_message"
    /\ Fetches(io) = MAX_ATTEMPTS
    /\ attempts = MAX_ATTEMPTS
    /\ PendingCount(jobs_data.jobs, current_job_id) > 0

\* C5: the watcher sleeps only between two polls: once the watch is over, the
\* last thing it did was a request, not a sleep; a watch whose first poll
\* finds nothing pending has not slept at all.
C5_SleepOnlyBetweenPolls ==
    WatchOver
        => /\ io[Len(io)] = "fetch"
           /\ (attempts = 0 => io = <<"fetch">>)

\* C6: the message composed for a stable run has a total-duration segment,
\* which renders calculate_total_duration of the same jobs with the reporting
\* job excluded.
C6_TotalDurationInMessage ==
    (pc = "return" /\ PendingCount(arg.jobs.jobs, arg.cur) = 0)
        => \E i \in DOMAIN ret :
              /\ ret[i][1] = "total_duration"
              /\ ret[i][2] = FormatDuration(
                    LET total == total_seconds(calculate_total_duration(arg.jobs, arg.cur))
                    IN  [minutes |-> total \div 60, seconds |-> total % 60])

\* C7: for end >= start, compute_duration returns "{minutes}m {seconds}s" with
\* seconds < 60 and minutes*60 + seconds the whole elapsed time in seconds,
\* elapsed times of a day or more included.
C7_DurationIsElapsedTime ==
    (pc = "return" /\ arg.start_time # None /\ arg.end_time # None
        /\ Val(arg.end_time) >= Val(arg.start_time))
        => LET elapsed == Val(arg.end_time) - Val(arg.start_time)
           IN  ret = FormatDuration([minutes |-> elapsed \div 60, seconds |-> elapsed % 60])

\* the literal markers of an invalid duration
InvalidTimeMarkers == {"N/A", "Invalid time"}

Reorderings(n) ==
    {f \in [1..n -> 1..n] : \A i, j \in 1..n : f[i] = f[j] => i = j}

\* the jobs whose timing counts: not the excluded job, both timestamps
\* present and parsed
Eligible(list, cur_id) ==
    {i \in DOMAIN list :
        /\ Some(list[i].id) # cur_id
        /\ list[i].started_at # None /\ list[i].completed_at # None
        /\ WellFormed(list[i].started_at) /\ WellFormed(list[i].completed_at)}

RECURSIVE SumOfElapsed(_, _)
SumOfElapsed(list, indices) ==
    IF indices = {} THEN 0
    ELSE LET i == CHOOSE x \in indices : TRUE
         IN  strptime(list[i].completed_at) - strptime(list[i].started_at)
             + SumOfElapsed(list, indices \ {i})

\* C9: calculate_total_duration(jobs, X) is the same for every permutation of
\* the list, is the sum over the jobs other than X that have both timestamps,
\* and is zero when there is no such job.
C9_TotalDuration ==
    pc = "return"
        => LET list == arg.jobs.jobs
               n == Len(list)
           IN  /\ \A f \in Reorderings(n) :
                    calculate_total_duration([jobs |-> [i \in 1..n |-> list[f[i]]]], arg.cur)
                        = ret
               /\ total_seconds(ret) = SumOfElapsed(list, Eligible(list, arg.cur))
               /\ Eligible(list, arg.cur) = {} => ret = [days |-> 0, seconds |-> 0]

\* C9 witness: the excluded job has valid timestamps, another job counts and
\* a third lacks a timestamp
C9_Witness ==
    /\ pc = "return"
    /\ LET list == arg.jobs.jobs IN
       /\ \E i \in DOMAIN list :
            /\ Some(list[i].id) = arg.cur
            /\ Eligible(<<list[i]>>, None) # {}
       /\ \E i \in DOMAIN list : list[i].completed_at = None
       /\ Eligible(list, arg.cur) # {}
       /\ total_seconds(ret) > 0

\* what the layout is given: left entry, right entry and left width of row i
LeftOf(lines, i) == lines[2 * i - 1]
RightOf(lines, i) == IF 2 * i <= Len(lines) THEN lines[2 * i] ELSE ""
LeftWidth(lines) ==
    LET lens == {Len(lines[k]) : k \in {k \in DOMAIN lines : k % 2 = 1}}
    IN  IF lens = {} THEN 0 ELSE CHOOSE m \in lens : \A x \in lens : x <= m

\* C10 as stated: ceil(n/2) rows; row i is line 2i-1 (0-based even index)
\* left-justified to maxLeftWidth + 4 characters, immediately followed by line
\* 2i (0-based odd index); where there is no line 2i the right side is empty
\* (blank, of any width).
C10_RightEntryAdjacent ==
    pc = "return"
        => /\ Len(ret) = (Len(arg) + 1) \div 2
           /\ \A i \in DOMAIN ret :
                LET padded == LeftOf(arg, i)
                              \o Spaces(LeftWidth(arg) + 4 - Len(LeftOf(arg, i)))
                IN  IF 2 * i <= Len(arg)
                    THEN ret[i] = padded \o RightOf(arg, i)
                    ELSE ret[i] = padded \o Spaces(Len(ret[i]) - Len(padded))

\* C10 amended: ceil(n/2) rows; row i is line 2i-1 left-justified to
\* maxLeftWidth + 4 characters, one space, then line 2i (or the empty string)
\* right-justified to maxLeftWidth + 2 characters.
C10_TwoColumnLayout ==
    pc = "return"
        => /\ Len(ret) = (Len(arg) + 1) \div 2
           /\ \A i \in DOMAIN ret :
                /\ ret[i] = LeftOf(arg, i) \o Spaces(LeftWidth(arg) + 4 - Len(LeftOf(arg, i)))
                            \o " "
                            \o Spaces(LeftWidth(arg) + 2 - Len(RightOf(arg, i)))
                            \o RightOf(arg, i)
                /\ Len(ret[i]) = LeftWidth(arg) + 4 + 1
                                 + Max(LeftWidth(arg) + 2, Len(RightOf(arg, i)))

\* C10 witness: five lines laid out in three rows, the last with no right entry
C10_Witness ==
    /\ pc = "return"
    /\ Len(arg) = 5
    /\ Len(ret) = 3
    /\ arg[1] # arg[3]
    /\ Len(arg[2]) > LeftWidth(arg) + 2

\* the keys of the event-specific payload of each named event
PayloadKeys(event_type) ==
    CASE event_type = "pull_request" -> {"pull_requests"}
      [] event_type = "push" -> {"head_commit"}
      [] event_type = "release" -> {"release"}
      [] event_type = "workflow_dispatch" -> {"head_branch"}
      [] event_type \in {"create", "delete"} -> {"ref_type", "ref"}
      [] event_type = "repository_dispatch" -> {"client_payload"}
      [] event_type = "schedule" -> {"schedule"}
      [] OTHER -> {}

\* the payload is absent: every key of it is missing, null, or the empty list
PayloadAbsent(workflow) ==
    \A k \in PayloadKeys(Get(workflow, "event", "workflow_dispatch")) :
        k \notin DOMAIN workflow \/ workflow[k] = None \/ workflow[k] = List(<<>>)

\* the fragment of each event with its literal placeholders, for a run whose
\* page is event_url and whose repository page is repo_url
PlaceholderFragment(event_type, event_url, repo_url) ==
    CASE event_type = "pull_request" ->
            "(link) [Pull Request: Unknown Pull Request](" \o event_url \o ")\n\n"
      [] event_type = "push" -> "(memo) Commit: No commit message\n\n"
      [] event_type = "release" ->
            "(link) [Release: No release tag](" \o event_url \o ")\n\n"
      [] event_type = "workflow_dispatch" ->
            "(link) Workflow dispatched on branch: 'No branch'\n\n"
      [] event_type = "create" ->
            "(link) [Created: No ref type](" \o repo_url
                \o "/tree/No ref name) No ref name\n\n"
      [] event_type = "delete" -> "(bin) Deleted: No ref type 'No ref name'\n\n"
      [] event_type = "repository_dispatch" ->
            "(link) Repository Dispatch event: 'No event action'\n\n"
      [] event_type = "schedule" ->
            "(clock) Scheduled event with cron: 'No schedule'\n\n"
      [] OTHER -> "(link) [Event details]\n\n"

\* C11: when the event-specific payload is absent (key missing, null, or an
\* empty pull-request list), the composed message is not the
\* composition-failure notice and holds the event's fragment with its literal
\* placeholder.
C11_AbsentPayloadGivesPlaceholder ==
    (pc = "return" /\ "workflow" \in DOMAIN arg /\ PayloadAbsent(arg.workflow))
        => /\ \A i \in DOMAIN ret : ret[i][1] # "error"
           /\ \E i \in DOMAIN ret :
                ret[i] = <<"event",
                           PlaceholderFragment(
                               Get(arg.workflow, "event", "workflow_dispatch"),
                               arg.workflow.html_url,
                               Val(arg.workflow.repository.html_url))>>

\* C12: when get_current_job_id returns no id (no job's normalized name
\* matches, or its lookup fails), the invocation stops with a failure before
\* the watcher polls: the watcher and the composer only ever run with a
\* resolved reporting-job id, and an invocation that ended without one ended
\* with a non-zero status, no poll and no message.
C12_UnresolvedIdStopsBeforeWatch ==
    /\ pc \in {"get_workflow_jobs", "format_telegram_message", "send_telegram_message"}
            => current_job_id # None
    /\ (Fetches(io) > 0 \/ message # <<>>) => current_job_id # None
    /\ (pc = "exit" /\ current_job_id = None)
            => (exit_status = Some(1) /\ io = <<>> /\ sink_calls = <<>>)

=============================================================================
